---- MODULE Spec2Model ----
(***************************************************************************)
(* A model of MGF's stable-handle Pool (src/src/pool.rs) and of the demo    *)
(* World's simulation step (src/mgf_demo/world.rs).                         *)
(*                                                                          *)
(* Spec      : a client driving one Pool<T> through its public operations.  *)
(* WorldSpec : a client inserting bodies into a World and stepping it.      *)
(*                                                                          *)
(* Rust's Option<T> is modelled as a sequence of length at most one:        *)
(* None is <<>> and Some(x) is <<x>>.  Vec indices are 0-based in the code; *)
(* entry i of a Vec is element i + 1 of the modelling sequence.             *)
(***************************************************************************)
EXTENDS Integers, Sequences, FiniteSets, TLC

VARIABLES
    pool,      \* the Pool under test: [len, free_list, entries]
    last,      \* the last Pool operation: [op, arg, ret, panic, pre]
    live,      \* history: the <<handle, value>> pairs pushed and not yet removed
    freed,     \* history: the handles removed and not reissued, most recent first
    issued,    \* history: every handle push has ever returned
    bodies,    \* World.bodies: Vec<(SimpleDynamicBody, usize)> as [body, bvh_id]
    bvh,       \* World.bvh: the stored entries, handle -> [bounds, value]
    pc,        \* where World::step stands ("idle" outside a step)
    body_i,    \* the loop variable of World::step
    pending,   \* the entries bvh.query has still to visit for body_i
    solver,    \* the step's ContactSolver: [constraints, solved, iterations]
    step_dt,   \* the dt of the step under way
    steps,     \* the number of finished steps
    events,    \* history: what the step under way has done, in order
    returned,  \* history: the ids World::insert_body has returned, in order
    twin       \* a second run of the step under way: [pending, constraints,
               \* bodies, done]

poolVars == <<pool, last, live, freed, issued>>

worldVars ==
    <<bodies, bvh, pc, body_i, pending, solver, step_dt, steps, events, returned,
      twin>>

vars == <<pool, last, live, freed, issued,
          bodies, bvh, pc, body_i, pending, solver, step_dt, steps, events,
          returned, twin>>

----------------------------------------------------------------------------
(* Bounds of the model.                                                     *)

\* Storage of the Pool grows to at most MaxEntries slots.
MaxEntries == 3

\* Values pushed are drawn from 1..MaxValue.
MaxValue == 2

Values == 1..MaxValue

\* Handles passed to remove/get/index: every slot that can exist and one
\* handle that is always beyond the storage.
Handles == 0..MaxEntries

----------------------------------------------------------------------------
(* Option<T>.                                                               *)

None == <<>>

Some(x) == <<x>>

----------------------------------------------------------------------------
(* PoolEntry<T>.                                                            *)

FreeListEnd == [tag |-> "FreeListEnd"]

FreeListPtr(n) == [tag |-> "FreeListPtr", next_free |-> n]

Occupied(item) == [tag |-> "Occupied", item |-> item]

\* self.entries.get(i): Some(entry) when i is in range, None otherwise.
EntryGet(p, i) ==
    IF i >= 0 /\ i < Len(p.entries) THEN Some(p.entries[i + 1]) ELSE None

----------------------------------------------------------------------------
(* Pool<T>.  Every operation is an operator from the pool (and its          *)
(* arguments) to [pool, ret, panic]: the pool as the call leaves it, the    *)
(* value returned (as an Option; None for () and for a call that panicked), *)
(* and whether the call panicked.                                           *)

PoolNew == [len |-> 0, free_list |-> None, entries |-> <<>>]

empty(p) == p.len = 0

\* len that reports the size of the storage.
len_storage(p) == Len(p.entries)

len(p) == p.len

\* clear that forgets to reset the free list.
clear_keeps_free_list(p) ==
    [pool |-> [len |-> 0, free_list |-> p.free_list, entries |-> <<>>],
     ret |-> None, panic |-> FALSE]

clear(p) ==
    [pool |-> [len |-> 0, free_list |-> None, entries |-> <<>>],
     ret |-> None, panic |-> FALSE]

\* push that reads the index of the new slot after growing the storage.
push_returns_len_after(p, item) ==
    LET q == [p EXCEPT !.len = @ + 1] IN
    IF p.free_list # None
    THEN LET free_item == p.free_list[1]
             e == EntryGet(p, free_item)
         IN  IF e = None \/ e[1].tag = "Occupied"
             THEN [pool |-> q, ret |-> None, panic |-> TRUE]
             ELSE [pool |-> [q EXCEPT
                       !.free_list = IF e[1].tag = "FreeListEnd"
                                     THEN None
                                     ELSE Some(e[1].next_free),
                       !.entries[free_item + 1] = Occupied(item)],
                   ret |-> Some(free_item), panic |-> FALSE]
    ELSE [pool |-> [q EXCEPT !.entries = Append(@, Occupied(item))],
          ret |-> Some(Len(p.entries) + 1), panic |-> FALSE]

\* push that reuses the head of the free list without advancing the head.
push_keeps_free_list(p, item) ==
    LET q == [p EXCEPT !.len = @ + 1] IN
    IF p.free_list # None
    THEN LET free_item == p.free_list[1]
             e == EntryGet(p, free_item)
         IN  IF e = None \/ e[1].tag = "Occupied"
             THEN [pool |-> q, ret |-> None, panic |-> TRUE]
             ELSE [pool |-> [q EXCEPT
                       !.entries[free_item + 1] = Occupied(item)],
                   ret |-> Some(free_item), panic |-> FALSE]
    ELSE [pool |-> [q EXCEPT !.entries = Append(@, Occupied(item))],
          ret |-> Some(Len(p.entries)), panic |-> FALSE]

push(p, item) ==
    LET q == [p EXCEPT !.len = @ + 1] IN
    IF p.free_list # None
    THEN LET free_item == p.free_list[1]
             e == EntryGet(p, free_item)
         IN  IF e = None \/ e[1].tag = "Occupied"
             THEN \* entries[free_item] out of bounds, or unreachable!()
                  [pool |-> q, ret |-> None, panic |-> TRUE]
             ELSE [pool |-> [q EXCEPT
                       !.free_list = IF e[1].tag = "FreeListEnd"
                                     THEN None
                                     ELSE Some(e[1].next_free),
                       !.entries[free_item + 1] = Occupied(item)],
                   ret |-> Some(free_item), panic |-> FALSE]
    ELSE [pool |-> [q EXCEPT !.entries = Append(@, Occupied(item))],
          ret |-> Some(Len(p.entries)), panic |-> FALSE]

\* remove in the manner of Vec::swap_remove: the last entry takes the place
\* of the removed one.
remove_swap(p, i) ==
    LET e == EntryGet(p, i)
        n == Len(p.entries)
    IN  IF e = None
        THEN [pool |-> p, ret |-> None, panic |-> TRUE]
        ELSE IF e[1].tag = "Occupied"
        THEN [pool |-> [p EXCEPT
                  !.len = @ - 1,
                  !.entries = [k \in 1..(n - 1) |->
                                  IF k = i + 1 THEN p.entries[n]
                                  ELSE p.entries[k]]],
              ret |-> Some(e[1].item), panic |-> FALSE]
        ELSE [pool |-> p, ret |-> None, panic |-> TRUE]

\* remove that does not link the freed slot to the rest of the free list.
remove_drops_free_list(p, i) ==
    LET q == [p EXCEPT !.free_list = Some(i)]
        e == EntryGet(p, i)
    IN  IF e = None
        THEN [pool |-> q, ret |-> None, panic |-> TRUE]
        ELSE LET r == [q EXCEPT !.entries[i + 1] = FreeListEnd] IN
             IF e[1].tag = "Occupied"
             THEN [pool |-> [r EXCEPT !.len = @ - 1],
                   ret |-> Some(e[1].item), panic |-> FALSE]
             ELSE [pool |-> r, ret |-> None, panic |-> TRUE]

\* remove that ignores a handle that is not occupied.
remove_silent(p, i) ==
    LET new_entry == IF p.free_list # None
                     THEN FreeListPtr(p.free_list[1])
                     ELSE FreeListEnd
        e == EntryGet(p, i)
    IN  IF e # None /\ e[1].tag = "Occupied"
        THEN [pool |-> [p EXCEPT !.free_list = Some(i),
                                 !.entries[i + 1] = new_entry,
                                 !.len = @ - 1],
              ret |-> Some(e[1].item), panic |-> FALSE]
        ELSE [pool |-> p, ret |-> None, panic |-> FALSE]

remove(p, i) ==
    LET new_entry == IF p.free_list # None
                     THEN FreeListPtr(p.free_list[1])
                     ELSE FreeListEnd
        q == [p EXCEPT !.free_list = Some(i)]
        e == EntryGet(p, i)
    IN  IF e = None
        THEN \* &mut self.entries[i] is out of bounds
             [pool |-> q, ret |-> None, panic |-> TRUE]
        ELSE LET r == [q EXCEPT !.entries[i + 1] = new_entry] IN
             IF e[1].tag = "Occupied"
             THEN [pool |-> [r EXCEPT !.len = @ - 1],
                   ret |-> Some(e[1].item), panic |-> FALSE]
             ELSE [pool |-> r, ret |-> None, panic |-> TRUE]

\* get through the panicking index of the Vec.
get_indexing(p, i) ==
    LET e == EntryGet(p, i) IN
    IF e = None
    THEN [pool |-> p, ret |-> None, panic |-> TRUE]
    ELSE IF e[1].tag = "Occupied"
         THEN [pool |-> p, ret |-> Some(e[1].item), panic |-> FALSE]
         ELSE [pool |-> p, ret |-> None, panic |-> FALSE]

get(p, i) ==
    LET e == EntryGet(p, i) IN
    IF e # None /\ e[1].tag = "Occupied"
    THEN [pool |-> p, ret |-> Some(e[1].item), panic |-> FALSE]
    ELSE [pool |-> p, ret |-> None, panic |-> FALSE]

get_mut(p, i) ==
    LET e == EntryGet(p, i) IN
    IF e # None /\ e[1].tag = "Occupied"
    THEN [pool |-> p, ret |-> Some(e[1].item), panic |-> FALSE]
    ELSE [pool |-> p, ret |-> None, panic |-> FALSE]

\* Indexing that panics only beyond the storage.
index_silent(p, i) ==
    LET e == EntryGet(p, i) IN
    IF e = None
    THEN [pool |-> p, ret |-> None, panic |-> TRUE]
    ELSE IF e[1].tag = "Occupied"
         THEN [pool |-> p, ret |-> Some(e[1].item), panic |-> FALSE]
         ELSE [pool |-> p, ret |-> None, panic |-> FALSE]

index(p, i) ==
    LET e == EntryGet(p, i) IN
    IF e = None
    THEN [pool |-> p, ret |-> None, panic |-> TRUE]
    ELSE IF e[1].tag = "Occupied"
         THEN [pool |-> p, ret |-> Some(e[1].item), panic |-> FALSE]
         ELSE [pool |-> p, ret |-> None, panic |-> TRUE]

\* filter_pool applied to (i, entries[i]).
filter_pool(i, e) ==
    IF e.tag = "Occupied" THEN Some(<<i, e.item>>) ELSE None

\* entries.iter().enumerate().filter_map(filter_pool), collected: the
\* sequence of items the iterator yields when run to its end.
RECURSIVE IterFrom(_, _)
IterFrom(p, i) ==
    IF i >= Len(p.entries)
    THEN <<>>
    ELSE filter_pool(i, p.entries[i + 1]) \o IterFrom(p, i + 1)

\* Iteration that enumerates after filtering: filter_map(..).enumerate().
iter_enumerate_after_filter(p) ==
    LET s == IterFrom(p, 0) IN [k \in 1..Len(s) |-> <<k - 1, s[k][2]>>]

iter(p) == IterFrom(p, 0)

----------------------------------------------------------------------------
(* The client of the Pool.  A panic unwinds out of the client: no further   *)
(* operation is applied to a pool whose last operation panicked.            *)

NoOp == [op |-> "new", arg |-> None, ret |-> None, panic |-> FALSE,
         pre |-> PoolNew]

PoolInit ==
    /\ pool = PoolNew
    /\ last = NoOp
    /\ live = {}
    /\ freed = <<>>
    /\ issued = {}

Running == ~last.panic

LiveHandles == {pr[1] : pr \in live}

\* The sequence s without the element x.
Without(s, x) == SelectSeq(s, LAMBDA y : y # x)

Record(name, a, r) ==
    [op |-> name, arg |-> a, ret |-> r.ret, panic |-> r.panic, pre |-> pool]

Push(item) ==
    /\ Running
    /\ pool.free_list # None \/ Len(pool.entries) < MaxEntries
    /\ LET r == push(pool, item) IN
       /\ pool' = r.pool
       /\ last' = Record("push", Some(item), r)
       /\ live' = IF r.panic THEN live ELSE live \cup {<<r.ret[1], item>>}
       /\ freed' = IF r.panic THEN freed ELSE Without(freed, r.ret[1])
       /\ issued' = IF r.panic THEN issued ELSE issued \cup {r.ret[1]}
    /\ UNCHANGED worldVars

Remove(i) ==
    /\ Running
    /\ LET r == remove(pool, i) IN
       /\ pool' = r.pool
       /\ last' = Record("remove", Some(i), r)
       /\ live' = IF r.panic THEN live ELSE {pr \in live : pr[1] # i}
       /\ freed' = IF r.panic THEN freed ELSE <<i>> \o freed
       /\ UNCHANGED issued
    /\ UNCHANGED worldVars

Clear ==
    /\ Running
    /\ LET r == clear(pool) IN
       /\ pool' = r.pool
       /\ last' = Record("clear", None, r)
       /\ live' = {}
       /\ freed' = <<>>
       /\ UNCHANGED issued
    /\ UNCHANGED worldVars

Get(i) ==
    /\ Running
    /\ LET r == get(pool, i) IN
       /\ pool' = r.pool
       /\ last' = Record("get", Some(i), r)
       /\ UNCHANGED <<live, freed, issued>>
    /\ UNCHANGED worldVars

GetMut(i) ==
    /\ Running
    /\ LET r == get_mut(pool, i) IN
       /\ pool' = r.pool
       /\ last' = Record("get_mut", Some(i), r)
       /\ UNCHANGED <<live, freed, issued>>
    /\ UNCHANGED worldVars

Index(i) ==
    /\ Running
    /\ LET r == index(pool, i) IN
       /\ pool' = r.pool
       /\ last' = Record("index", Some(i), r)
       /\ UNCHANGED <<live, freed, issued>>
    /\ UNCHANGED worldVars

----------------------------------------------------------------------------
(* The World of the demo (src/mgf_demo/world.rs).  The library types it     *)
(* uses (SimpleDynamicBody, AABB, BVH, StaticBody, Mesh, ContactPruner,     *)
(* Manifold, ContactSolver) are not part of the sources at hand; they are   *)
(* modelled from the specification's description of their contracts, in one *)
(* space dimension: a body is a ball of radius r centred at x moving with   *)
(* velocity v, a bounding volume is an interval [lo, hi].                   *)

\* World::insert_body is called at most MaxBodies times.
MaxBodies == 3

\* World::step is called at most MaxSteps times.
MaxSteps == 1

\* The margin bounds are fattened by before they are stored in the BVH.
Margin == 5

\* The iteration count World::step hands to ContactSolver::solve.
SolveIterations == 20

\* f32 arithmetic.  Finite values are integers; NaN stands for a value that
\* is not finite.  An operation on NaN gives NaN and every comparison with
\* NaN is false.
NaN == 0 - 1000

FAdd(a, b) == IF a = NaN \/ b = NaN THEN NaN ELSE a + b

FSub(a, b) == IF a = NaN \/ b = NaN THEN NaN ELSE a - b

FMul(a, b) == IF a = NaN \/ b = NaN THEN NaN ELSE a * b

FLe(a, b) == a # NaN /\ b # NaN /\ a <= b

FLt(a, b) == a # NaN /\ b # NaN /\ a < b

\* The bodies the application builds: centre x, velocity v and radius r.
\* The last one has a degenerate velocity.
NewBodies ==
    {[x |-> 0, v |-> 0, r |-> 1], [x |-> 2, v |-> 0 - 3, r |-> 1],
     [x |-> 12, v |-> 0 - 6, r |-> 1], [x |-> 2, v |-> NaN, r |-> 1]}

\* The time steps the application passes to World::step.
Dts == {1}

\* Handles the BVH can hand out.
BvhHandles == 0..MaxBodies

\* The faces of the terrain mesh, in mesh order.
TerrainFaces == <<[lo |-> 0 - 10, hi |-> 0], [lo |-> 0 - 10, hi |-> 0 - 2]>>

\* SimpleDynamicBody::integrate(dt)
integrate(b, dt) == [b EXCEPT !.x = FAdd(@, FMul(b.v, dt))]

\* SimpleDynamicBody::bounds(): the tight bounds of the body.
Bounds(b) == [lo |-> FSub(b.x, b.r), hi |-> FAdd(b.x, b.r)]

\* AABB + f32: the box grown by a margin on every side.
Fatten(bb, m) == [lo |-> FSub(bb.lo, m), hi |-> FAdd(bb.hi, m)]

\* AABB::contains
Contains(outer, inner) == FLe(outer.lo, inner.lo) /\ FLe(inner.hi, outer.hi)

\* Whether two bounding volumes intersect.
Intersects(a, b) == FLe(a.lo, b.hi) /\ FLe(b.lo, a.hi)

Abs(n) == IF n = NaN THEN NaN ELSE IF n < 0 THEN 0 - n ELSE n

\* The handles BVH::insert may return: one the index does not use.  The
\* model follows the lowest and the highest of them when an entry is moved,
\* and the lowest when a body is inserted (up to the names of the handles,
\* the choices for a new body do not differ).
BvhUnused(t) == BvhHandles \ DOMAIN t

BvhFirst(t) == {h \in BvhUnused(t) : \A k \in BvhUnused(t) : h <= k}

BvhFree(t) ==
    {h \in BvhUnused(t) :
        (\A k \in BvhUnused(t) : h <= k) \/ (\A k \in BvhUnused(t) : k <= h)}

\* BVH::insert with the handle the index picks, BVH::remove, BVH::query.

BvhInsert(t, h, bb, value) == (h :> [bounds |-> bb, value |-> value]) @@ t

BvhRemove(t, h) == [k \in DOMAIN t \ {h} |-> t[k]]

BvhQuery(t, region) == {h \in DOMAIN t : Intersects(t[h].bounds, region)}

\* local_contacts of a dynamic body against another dynamic body: the
\* sequence of local contacts handed to the callback.
LocalContacts(a, b) ==
    IF FLe(Abs(FSub(a.x, b.x)), a.r + b.r)
    THEN <<[depth |-> a.r + b.r - Abs(a.x - b.x)]>>
    ELSE <<>>

\* local_contacts of a dynamic body against the terrain: one local contact
\* per face of the mesh the body touches, in mesh order.
RECURSIVE TerrainContactsFrom(_, _)
TerrainContactsFrom(a, k) ==
    IF k > Len(TerrainFaces)
    THEN <<>>
    ELSE (IF Intersects(Bounds(a), TerrainFaces[k])
          THEN <<[depth |-> FSub(TerrainFaces[k].hi, Bounds(a).lo)]>>
          ELSE <<>>) \o TerrainContactsFrom(a, k + 1)

TerrainContacts(a) == TerrainContactsFrom(a, 1)

\* Manifold::from(LocalContact) and Manifold::from(ContactPruner).
ManifoldFromContact(lc) == [contacts |-> <<lc>>]

ManifoldFromPruner(pruner) == [contacts |-> pruner]

\* ContactSolver::new, ContactSolver::add_constraint.
SolverNew == [constraints |-> <<>>, solved |-> 0, iterations |-> 0]

AddConstraint(s, c) == [s EXCEPT !.constraints = Append(@, c)]

\* One impulse of the solver: a body moving into the terrain is stopped,
\* two bodies closing on each other exchange their velocities.
ApplyConstraint(bs, c) ==
    IF c.manifold.contacts = <<>>
    THEN bs
    ELSE IF c.kind = "terrain"
    THEN IF FLt(bs[c.a + 1].body.v, 0)
         THEN [bs EXCEPT ![c.a + 1].body.v = 0]
         ELSE bs
    ELSE LET a == bs[c.a + 1].body
             b == bs[c.b + 1].body
             aLeft == FLt(a.x, b.x) \/ (a.x = b.x /\ c.a < c.b)
             closing == IF aLeft THEN FLt(b.v, a.v) ELSE FLt(a.v, b.v)
         IN  IF closing
             THEN [bs EXCEPT ![c.a + 1].body.v = b.v, ![c.b + 1].body.v = a.v]
             ELSE bs

\* One pass over the constraints, in the order they were added.
RECURSIVE SolvePass(_, _, _)
SolvePass(bs, cs, k) ==
    IF k > Len(cs)
    THEN bs
    ELSE LET nb == ApplyConstraint(bs, cs[k]) IN
         IF nb = bs THEN SolvePass(bs, cs, k + 1) ELSE SolvePass(nb, cs, k + 1)

\* ContactSolver::solve(n): n passes.  A pass that changes nothing is
\* followed only by passes that change nothing.
RECURSIVE SolveBodies(_, _, _)
SolveBodies(bs, cs, n) ==
    IF n = 0
    THEN bs
    ELSE LET nb == SolvePass(bs, cs, 1) IN
         IF nb = bs THEN bs ELSE SolveBodies(nb, cs, n - 1)

WorldInit ==
    /\ bodies = <<>>
    /\ bvh = <<>>
    /\ pc = "idle"
    /\ body_i = 0
    /\ pending = {}
    /\ solver = SolverNew
    /\ step_dt = 0
    /\ steps = 0
    /\ events = <<>>
    /\ returned = <<>>

\* No second run is under way.
TwinNew == [pending |-> {}, constraints |-> <<>>, bodies |-> <<>>,
            done |-> FALSE]

Init == PoolInit /\ WorldInit /\ twin = TwinNew

\* World::insert_body(b); h is the handle the BVH returns.
insert_body(b, h) ==
    LET id == Len(bodies)
        bounds == Bounds(b)
    IN  /\ bvh' = BvhInsert(bvh, h, Fatten(bounds, Margin), id)
        /\ bodies' = Append(bodies, [body |-> b, bvh_id |-> h])
        /\ returned' = Append(returned, id)

InsertBody(b, h) ==
    /\ pc = "idle"
    /\ Len(bodies) < MaxBodies
    /\ h \in BvhFirst(bvh)
    /\ insert_body(b, h)
    /\ UNCHANGED <<pc, body_i, pending, solver, step_dt, steps, events>>
    /\ UNCHANGED poolVars

\* A loop head that leaves the loop one body early.
LoopAtEarly(i) == IF i < Len(bodies) - 1 THEN "integrate" ELSE "solve"

\* The head of `for body_i in 0..self.bodies.len()`: the next iteration, or
\* the statement after the loop.
LoopAt(i) == IF i < Len(bodies) THEN "integrate" ELSE "solve"

\* World::step(dt), up to the loop.
StepBegin(dt) ==
    /\ pc = "idle"
    /\ steps < MaxSteps
    /\ solver' = SolverNew
    /\ step_dt' = dt
    /\ body_i' = 0
    /\ pc' = LoopAt(0)
    /\ pending' = {}
    /\ events' = <<>>
    /\ UNCHANGED <<bodies, bvh, steps>>
    /\ UNCHANGED returned
    /\ UNCHANGED poolVars

\* The refresh that moves the BVH entry and keeps the old handle with the
\* body.
StepIntegrateKeepsHandle(h) ==
    /\ pc = "integrate"
    /\ LET b == integrate(bodies[body_i + 1].body, step_dt)
           bounds == Bounds(b)
           id == bodies[body_i + 1].bvh_id
       IN  IF ~Contains(bvh[id].bounds, bounds)
           THEN /\ h \in BvhFree(BvhRemove(bvh, id))
                /\ bvh' = BvhInsert(BvhRemove(bvh, id), h,
                                    Fatten(bounds, Margin), body_i)
                /\ bodies' = [bodies EXCEPT ![body_i + 1].body = b]
                /\ events' = Append(events, [e |-> "integrate", i |-> body_i,
                                             moved |-> TRUE])
           ELSE /\ h = id
                /\ bvh' = bvh
                /\ bodies' = [bodies EXCEPT ![body_i + 1].body = b]
                /\ events' = Append(events, [e |-> "integrate", i |-> body_i,
                                             moved |-> FALSE])
    /\ pc' = "terrain"
    /\ UNCHANGED <<body_i, pending, solver, step_dt, steps>>
    /\ UNCHANGED returned
    /\ UNCHANGED poolVars

\* Integrate bodies[body_i] and, if its bounds left the stored ones, move its
\* BVH entry; h is the handle the BVH returns for the new entry.
StepIntegrate(h) ==
    /\ pc = "integrate"
    /\ LET b == integrate(bodies[body_i + 1].body, step_dt)
           bounds == Bounds(b)
           id == bodies[body_i + 1].bvh_id
       IN  IF ~Contains(bvh[id].bounds, bounds)
           THEN /\ h \in BvhFree(BvhRemove(bvh, id))
                /\ bvh' = BvhInsert(BvhRemove(bvh, id), h,
                                    Fatten(bounds, Margin), body_i)
                /\ bodies' = [bodies EXCEPT ![body_i + 1] =
                                 [body |-> b, bvh_id |-> h]]
                /\ events' = Append(events, [e |-> "integrate", i |-> body_i,
                                             moved |-> TRUE])
           ELSE /\ h = id
                /\ bvh' = bvh
                /\ bodies' = [bodies EXCEPT ![body_i + 1].body = b]
                /\ events' = Append(events, [e |-> "integrate", i |-> body_i,
                                             moved |-> FALSE])
    /\ pc' = "terrain"
    /\ UNCHANGED <<body_i, pending, solver, step_dt, steps>>
    /\ UNCHANGED returned
    /\ UNCHANGED poolVars

\* A terrain callback that collects the local contacts of a body into one
\* manifold.
TerrainConstraintsPruned(i, lcs, dt, k) ==
    IF lcs = <<>>
    THEN <<>>
    ELSE <<[kind |-> "terrain", a |-> i,
            manifold |-> [contacts |-> lcs], dt |-> dt]>>

\* The constraints the terrain callback adds for a body: one manifold for
\* every local contact.
RECURSIVE TerrainConstraints(_, _, _, _)
TerrainConstraints(i, lcs, dt, k) ==
    IF k > Len(lcs)
    THEN <<>>
    ELSE <<[kind |-> "terrain", a |-> i,
            manifold |-> ManifoldFromContact(lcs[k]), dt |-> dt]>>
         \o TerrainConstraints(i, lcs, dt, k + 1)

\* A candidate test that lets every entry through.
SkippedNever(collider_i, i) == FALSE

\* A candidate test with the comparison turned around.
SkippedLower(collider_i, i) == collider_i <= i

\* A candidate test that skips only the driving body itself.
SkippedSelfOnly(collider_i, i) == collider_i = i

\* The candidate test of the query callback.
Skipped(collider_i, i) == collider_i >= i

\* The terrain part of the iteration with a first-body test that also
\* leaves the iteration of the second body.
StepTerrainSkipsSecond ==
    /\ pc = "terrain"
    /\ LET b == bodies[body_i + 1].body
           cs == TerrainConstraints(body_i, TerrainContacts(b), step_dt, 1)
       IN  /\ solver' = [solver EXCEPT !.constraints = @ \o cs]
           /\ events' = Append(events, [e |-> "terrain", i |-> body_i,
                                        n |-> Len(cs)])
           /\ IF body_i <= 1
              THEN /\ body_i' = body_i + 1
                   /\ pc' = LoopAt(body_i + 1)
                   /\ pending' = {}
              ELSE /\ body_i' = body_i
                   /\ pc' = "query"
                   /\ pending' = BvhQuery(bvh, Bounds(b))
    /\ UNCHANGED <<bodies, bvh, step_dt, steps>>
    /\ UNCHANGED returned
    /\ UNCHANGED poolVars

\* Collide bodies[body_i] with the terrain; then leave the iteration if it
\* is the first one, and start the BVH query otherwise.
StepTerrain ==
    /\ pc = "terrain"
    /\ LET b == bodies[body_i + 1].body
           cs == TerrainConstraints(body_i, TerrainContacts(b), step_dt, 1)
       IN  /\ solver' = [solver EXCEPT !.constraints = @ \o cs]
           /\ events' = Append(events, [e |-> "terrain", i |-> body_i,
                                        n |-> Len(cs)])
           /\ IF body_i = 0
              THEN /\ body_i' = body_i + 1
                   /\ pc' = LoopAt(body_i + 1)
                   /\ pending' = {}
              ELSE /\ body_i' = body_i
                   /\ pc' = "query"
                   /\ pending' = BvhQuery(bvh, Bounds(b))
    /\ UNCHANGED <<bodies, bvh, step_dt, steps>>
    /\ UNCHANGED returned
    /\ UNCHANGED poolVars

\* A query callback that registers a manifold only when the pruner holds a
\* contact.
StepVisitNonEmptyOnly(h) ==
    /\ pc = "query"
    /\ h \in pending
    /\ pending' = pending \ {h}
    /\ LET collider_i == bvh[h].value
           pruner == IF Skipped(collider_i, body_i)
                     THEN <<>>
                     ELSE LocalContacts(bodies[body_i + 1].body,
                                        bodies[collider_i + 1].body)
       IN
       IF pruner = <<>>
       THEN UNCHANGED <<solver, events>>
       ELSE LET c == [kind |-> "dynamic", a |-> body_i, b |-> collider_i,
                      manifold |-> ManifoldFromPruner(pruner),
                      dt |-> step_dt]
            IN  /\ solver' = AddConstraint(solver, c)
                /\ events' = Append(events, [e |-> "pair", i |-> body_i,
                                             j |-> collider_i])
    /\ UNCHANGED <<bodies, bvh, pc, body_i, step_dt, steps>>
    /\ UNCHANGED returned
    /\ UNCHANGED poolVars

\* One call of the query callback, for the entry h.
StepVisit(h) ==
    /\ pc = "query"
    /\ h \in pending
    /\ pending' = pending \ {h}
    /\ LET collider_i == bvh[h].value IN
       IF Skipped(collider_i, body_i)
       THEN UNCHANGED <<solver, events>>
       ELSE LET pruner == LocalContacts(bodies[body_i + 1].body,
                                        bodies[collider_i + 1].body)
                c == [kind |-> "dynamic", a |-> body_i, b |-> collider_i,
                      manifold |-> ManifoldFromPruner(pruner),
                      dt |-> step_dt]
            IN  /\ solver' = AddConstraint(solver, c)
                /\ events' = Append(events, [e |-> "pair", i |-> body_i,
                                             j |-> collider_i])
    /\ UNCHANGED <<bodies, bvh, pc, body_i, step_dt, steps>>
    /\ UNCHANGED returned
    /\ UNCHANGED poolVars

\* bvh.query has returned: the next iteration of the loop.
StepQueryDone ==
    /\ pc = "query"
    /\ pending = {}
    /\ body_i' = body_i + 1
    /\ pc' = LoopAt(body_i + 1)
    /\ UNCHANGED <<bodies, bvh, pending, solver, step_dt, steps, events>>
    /\ UNCHANGED returned
    /\ UNCHANGED poolVars

\* contact_solver.solve(20), and the return of World::step.
StepSolve ==
    /\ pc = "solve"
    /\ bodies' = SolveBodies(bodies, solver.constraints, SolveIterations)
    /\ solver' = [solver EXCEPT !.solved = @ + 1,
                                !.iterations = SolveIterations]
    /\ events' = Append(events, [e |-> "solve"])
    /\ steps' = steps + 1
    /\ pc' = "idle"
    /\ UNCHANGED <<bvh, body_i, pending, step_dt>>
    /\ UNCHANGED returned
    /\ UNCHANGED poolVars

Next ==
    \/ \E item \in Values : Push(item)
    \/ \E i \in Handles : Remove(i)
    \/ Clear
    \/ \E i \in Handles : Get(i)
    \/ \E i \in Handles : GetMut(i)
    \/ \E i \in Handles : Index(i)

Spec == Init /\ [][Next]_vars

WorldNext ==
    \/ \E b \in NewBodies, h \in BvhHandles : InsertBody(b, h) /\ UNCHANGED twin
    \/ \E dt \in Dts : StepBegin(dt) /\ UNCHANGED twin
    \/ \E h \in BvhHandles : StepIntegrate(h) /\ UNCHANGED twin
    \/ StepTerrain /\ UNCHANGED twin
    \/ \E h \in BvhHandles : StepVisit(h) /\ UNCHANGED twin
    \/ StepQueryDone /\ UNCHANGED twin
    \/ StepSolve /\ UNCHANGED twin

WorldSpec == Init /\ [][WorldNext]_vars

----------------------------------------------------------------------------
(* Two runs of World::step from the same World with the same dt.  The runs  *)
(* share everything the code computes from the state alone (integration,    *)
(* the bounds refresh, the terrain contacts, the entries a query reports);  *)
(* each run has its own order in which bvh.query calls the callback, which  *)
(* the index leaves unspecified, and so its own solver and its own result.  *)

\* The constraints the first run added in the step of the model being taken.
AddedNow ==
    SubSeq(solver'.constraints, Len(solver.constraints) + 1,
           Len(solver'.constraints))

TwinInsertBody(b, h) ==
    /\ InsertBody(b, h)
    /\ twin' = TwinNew

TwinStepBegin(dt) ==
    /\ StepBegin(dt)
    /\ twin' = TwinNew

TwinStepIntegrate(h) ==
    /\ StepIntegrate(h)
    /\ UNCHANGED twin

\* The terrain callback adds the same constraints in both runs; the query of
\* the second run reports the same entries.
TwinStepTerrain ==
    /\ StepTerrain
    /\ twin' = [twin EXCEPT !.constraints = @ \o AddedNow,
                            !.pending = pending']

\* One call of the query callback in the first run.
TwinStepVisit(h) ==
    /\ StepVisit(h)
    /\ UNCHANGED twin

\* One call of the query callback in the second run, for the entry h.
TwinVisit(h) ==
    /\ pc = "query"
    /\ h \in twin.pending
    /\ LET collider_i == bvh[h].value IN
       IF Skipped(collider_i, body_i)
       THEN twin' = [twin EXCEPT !.pending = @ \ {h}]
       ELSE LET pruner == LocalContacts(bodies[body_i + 1].body,
                                        bodies[collider_i + 1].body)
                c == [kind |-> "dynamic", a |-> body_i, b |-> collider_i,
                      manifold |-> ManifoldFromPruner(pruner),
                      dt |-> step_dt]
            IN  twin' = [twin EXCEPT !.pending = @ \ {h},
                                     !.constraints = Append(@, c)]
    /\ UNCHANGED <<bodies, bvh, pc, body_i, pending, solver, step_dt, steps,
                   events, returned>>
    /\ UNCHANGED poolVars

\* bvh.query has returned in both runs.
TwinStepQueryDone ==
    /\ twin.pending = {}
    /\ StepQueryDone
    /\ UNCHANGED twin

\* contact_solver.solve(20) in both runs, each on its own constraints.
TwinStepSolve ==
    /\ StepSolve
    /\ twin' = [twin EXCEPT
                   !.bodies = SolveBodies(bodies, twin.constraints,
                                          SolveIterations),
                   !.done = TRUE]

TwinNext ==
    \/ \E b \in NewBodies, h \in BvhHandles : TwinInsertBody(b, h)
    \/ \E dt \in Dts : TwinStepBegin(dt)
    \/ \E h \in BvhHandles : TwinStepIntegrate(h)
    \/ TwinStepTerrain
    \/ \E h \in BvhHandles : TwinStepVisit(h)
    \/ \E h \in BvhHandles : TwinVisit(h)
    \/ TwinStepQueryDone
    \/ TwinStepSolve

TwinSpec == Init /\ [][TwinNext]_vars

----------------------------------------------------------------------------
(* Properties of the Pool, checked under Spec.                              *)

\* The slots of the pool that hold a value.
OccupiedSlots(p) ==
    {i \in 0..(Len(p.entries) - 1) : p.entries[i + 1].tag = "Occupied"}

\* The set of elements of a sequence.
Range(s) == {s[k] : k \in 1..Len(s)}

\* C1: after any sequence of push, remove of occupied handles and clear,
\* iter() yields exactly the (handle, value) pairs pushed and not yet removed,
\* each once, in strictly ascending handle order, and nothing for a free slot.
C1_IterYieldsOccupied ==
    Running =>
        LET s == iter(pool) IN
        /\ Range(s) = live
        /\ \A k \in 1..(Len(s) - 1) : s[k][1] < s[k + 1][1]
        /\ \A k \in 1..Len(s) : s[k][1] \notin Range(freed)
        /\ {s[k][1] : k \in 1..Len(s)} = OccupiedSlots(pool)

\* Iteration over a pool with a free slot between two occupied ones.
C1_Witness ==
    /\ Running
    /\ last.op = "remove"
    /\ Len(iter(pool)) = 2
    /\ iter(pool)[1][1] = 0
    /\ iter(pool)[2][1] = 2

\* C2: a push, and a remove of another occupied handle, leave the value at a
\* live handle h as it was and h occupied; h stops being occupied only
\* through remove(h) or clear.
C2_HandleStability ==
    [][/\ \A pr \in live :
            (\/ last'.op = "push"
             \/ (last'.op = "remove" /\ ~last'.panic
                   /\ last'.arg # Some(pr[1])))
            => get(pool', pr[1]).ret = Some(pr[2])
       /\ \A h \in Handles :
            (get(pool, h).ret # None /\ get(pool', h).ret = None)
            => (\/ last'.op = "clear"
                \/ (last'.op = "remove" /\ last'.arg = Some(h)))]_vars

\* A handle that stayed live across the remove of another occupied handle.
C2_Witness ==
    /\ last.op = "remove"
    /\ ~last.panic
    /\ last.pre.len >= 2
    /\ \E pr \in live : pr[1] < last.arg[1] /\ get(pool, pr[1]).ret = Some(pr[2])

\* C3: with a free slot, push returns the most recently removed of the slots
\* still free and does not grow the storage; without one, push returns the
\* storage size and grows the storage by exactly one.
C3_LifoReuse ==
    [][last'.op = "push" =>
          /\ ~last'.panic
          /\ IF freed # <<>>
             THEN /\ last'.ret = Some(Head(freed))
                  /\ Len(pool'.entries) = Len(pool.entries)
             ELSE /\ last'.ret = Some(Len(pool.entries))
                  /\ Len(pool'.entries) = Len(pool.entries) + 1]_vars

\* A push that had two free slots to choose from.
C3_Witness ==
    /\ last.op = "push"
    /\ ~last.panic
    /\ Len(last.pre.entries) >= last.pre.len + 2
    /\ Len(freed) >= 1

\* C4: push never returns a handle whose slot is occupied: the handles pushed
\* and not yet removed are pairwise distinct, and each holds the value it was
\* pushed with.
C4_NoSharedHandle ==
    /\ \A pr \in live : get(pool, pr[1]).ret = Some(pr[2])
    /\ \A p1 \in live : \A p2 \in live : p1[1] = p2[1] => p1 = p2
    /\ (last.op = "push" /\ ~last.panic)
          => get(last.pre, last.ret[1]).ret = None

\* A push that reused a slot while other handles were live.
C4_Witness ==
    /\ last.op = "push"
    /\ ~last.panic
    /\ last.pre.free_list # None
    /\ Cardinality(live) >= 2

\* C5: remove(h) panics when h is not occupied (removed and not reissued, or
\* beyond the storage); when h is occupied it returns the stored value and the
\* slot becomes free.
C5_RemoveChecksOccupancy ==
    [][last'.op = "remove" =>
          LET h == last'.arg[1] IN
          IF h \in LiveHandles
          THEN /\ ~last'.panic
               /\ \E pr \in live : pr[1] = h /\ last'.ret = Some(pr[2])
               /\ h \notin OccupiedSlots(pool')
               /\ h < Len(pool'.entries)
          ELSE last'.panic]_vars

\* A remove of a slot that had been removed and not reissued.
C5_Witness ==
    /\ last.op = "remove"
    /\ last.panic
    /\ last.arg[1] < Len(last.pre.entries)

\* C6: len() is the number of occupied slots, not the storage size, and
\* empty() is true exactly when no slot is occupied.
C6_LenCountsOccupied ==
    /\ len(pool) = Cardinality(OccupiedSlots(pool))
    /\ len(pool) = Cardinality(LiveHandles)
    /\ empty(pool) <=> OccupiedSlots(pool) = {}

\* A pool whose storage is larger than its number of occupied slots.
C6_Witness ==
    /\ len(pool) = 1
    /\ Len(pool.entries) = 3
    /\ ~empty(pool)

\* C7: get(h) and get_mut(h) never fail; they return the stored value when h
\* is occupied and nothing otherwise, and leave the pool as it was.
C7_GetNeverFails ==
    [][last'.op \in {"get", "get_mut"} =>
          LET h == last'.arg[1] IN
          /\ ~last'.panic
          /\ pool' = pool
          /\ IF h \in LiveHandles
             THEN \E pr \in live : pr[1] = h /\ last'.ret = Some(pr[2])
             ELSE last'.ret = None]_vars

\* A get of a handle beyond the storage of a pool that holds a free slot.
C7_Witness ==
    /\ last.op = "get"
    /\ last.ret = None
    /\ last.arg[1] >= Len(pool.entries)
    /\ freed # <<>>

\* C8: pool[h] returns the stored value when h is occupied and panics when h
\* is free or out of range; it agrees with get(h) on every occupied handle and
\* panics exactly where get(h) returns nothing.
C8_IndexPanicsWhereGetIsNone ==
    last.op = "index" =>
        LET h == last.arg[1] IN
        /\ pool = last.pre
        /\ IF h \in LiveHandles
           THEN /\ ~last.panic
                /\ \E pr \in live : pr[1] = h /\ last.ret = Some(pr[2])
                /\ last.ret = get(last.pre, h).ret
           ELSE last.panic
        /\ last.panic <=> get(last.pre, h).ret = None

\* Indexing a slot that is within the storage and free.
C8_Witness ==
    /\ last.op = "index"
    /\ last.panic
    /\ last.arg[1] < Len(pool.entries)

\* C9: clear() yields the empty state: len 0, no slot occupied, no free list,
\* no storage; the next push returns 0 and get reports every handle issued
\* before as absent.
C9_ClearResets ==
    last.op = "clear" =>
        /\ len(pool) = 0
        /\ empty(pool)
        /\ pool.free_list = None
        /\ pool.entries = <<>>
        /\ pool = PoolNew
        /\ iter(pool) = <<>>
        /\ \A v \in Values :
              push(pool, v).ret = Some(0) /\ ~push(pool, v).panic
        /\ \A h \in issued : get(pool, h).ret = None

\* A clear of a pool that held values and a free list.
C9_Witness ==
    /\ last.op = "clear"
    /\ last.pre.free_list # None
    /\ last.pre.len >= 1
    /\ Cardinality(issued) >= 2

----------------------------------------------------------------------------
(* Properties of World::step, checked under WorldSpec.                      *)

\* The positions of the dynamic-vs-dynamic constraints of the solver.
DynamicAt == {k \in 1..Len(solver.constraints) :
                 solver.constraints[k].kind = "dynamic"}

\* C10: within one step a dynamic-vs-dynamic constraint is registered for
\* (driver i, candidate j) only when j < i: no unordered pair of bodies is
\* registered twice, no body is paired with itself, and body 0 drives none.
C10_OrderedPairsOnce ==
    LET cs == solver.constraints IN
    /\ \A k \in DynamicAt :
          /\ cs[k].b < cs[k].a
          /\ cs[k].a # cs[k].b
          /\ cs[k].a # 0
    /\ \A k1 \in DynamicAt : \A k2 \in DynamicAt :
          {cs[k1].a, cs[k1].b} = {cs[k2].a, cs[k2].b} => k1 = k2

\* A finished step in which every pair of three bodies was a candidate: each
\* query also visited the driving body itself and the bodies after it.
C10_Witness ==
    /\ pc = "idle"
    /\ solver.solved = 1
    /\ Len(bodies) = 3
    /\ Cardinality(DynamicAt) = 3

\* Whether the shapes of bodies i and j overlap.
Overlap(i, j) == LocalContacts(bodies[i + 1].body, bodies[j + 1].body) # <<>>

\* C11: for three bodies A, B, C (ids 0, 1, 2) of which, after integration,
\* only B and C overlap, a step registers exactly one dynamic-vs-dynamic
\* manifold, the one of C driving against B, and none for (B, A) or (C, A).
C11_OnlyOverlappingPairRegistered ==
    (/\ pc = "solve"
     /\ Len(bodies) = 3
     /\ Overlap(2, 1)
     /\ ~Overlap(1, 0)
     /\ ~Overlap(2, 0))
    => /\ Cardinality(DynamicAt) = 1
       /\ \A k \in DynamicAt :
             solver.constraints[k].a = 2 /\ solver.constraints[k].b = 1

\* The positions of the events of one kind in the history of the step.
EventsOf(kind) == {k \in 1..Len(events) : events[k].e = kind}

\* Whether body i was integrated before position k of the history.
IntegratedBefore(i, k) ==
    \E m \in EventsOf("integrate") : m < k /\ events[m].i = i

\* C12 as stated: every body is integrated and bounds-refreshed before any
\* dynamic-vs-dynamic contact generation of the step begins.
C12_AllIntegratedBeforeAnyPair ==
    pc # "idle" =>
        \A k \in EventsOf("pair") :
            \A i \in 0..(Len(bodies) - 1) : IntegratedBefore(i, k)

\* What the loop of step does keep: both bodies of a pair are integrated and
\* bounds-refreshed before contact generation runs for that pair.
PairBodiesIntegrated ==
    \A k \in EventsOf("pair") :
        /\ IntegratedBefore(events[k].i, k)
        /\ IntegratedBefore(events[k].j, k)

\* The tight bounds of body i after the step of the model being taken.
TightAfter(i) == Bounds(bodies'[i + 1].body)

\* The refresh of body i did what the rule says: the entry is moved, with
\* the tight bounds expanded by the margin and the id as payload, exactly
\* when the stored bounds do not contain the new tight bounds, and is left
\* alone otherwise; the other entries are untouched.
RefreshedByRule(i) ==
    LET old == bodies[i + 1].bvh_id
        new == bodies'[i + 1].bvh_id
    IN  IF ~Contains(bvh[old].bounds, TightAfter(i))
        THEN /\ DOMAIN bvh' = (DOMAIN bvh \ {old}) \cup {new}
             /\ bvh'[new] = [bounds |-> Fatten(TightAfter(i), Margin),
                             value |-> i]
             /\ \A h \in DOMAIN bvh \ {old} : h # new /\ bvh'[h] = bvh[h]
        ELSE new = old /\ bvh' = bvh

\* Right after the refresh the stored bounds contain the tight bounds.
StoredContainsTight(i) ==
    Contains(bvh'[bodies'[i + 1].bvh_id].bounds, TightAfter(i))

\* C13: after a body is integrated its index entry is removed and reinserted
\* (tight bounds expanded by the margin, payload = the body's id) exactly
\* when the stored bounds do not contain the new tight bounds, the handle
\* and the stored bounds are unchanged otherwise, and right after the
\* refresh the stored bounds contain the tight bounds.
C13_RefreshExactlyOnEscape ==
    [][(pc = "integrate" /\ pc' = "terrain")
          => RefreshedByRule(body_i) /\ StoredContainsTight(body_i)]_vars

\* The rule itself is followed for every body, and its consequence holds
\* for every body whose integrated state is finite.
RefreshOfFiniteBodies ==
    [][(pc = "integrate" /\ pc' = "terrain")
          => /\ RefreshedByRule(body_i)
             /\ bodies'[body_i + 1].body.x # NaN
                   => StoredContainsTight(body_i)]_vars

\* The number of terrain constraints the history records up to position k.
RECURSIVE TerrainAdded(_)
TerrainAdded(k) ==
    IF k = 0
    THEN 0
    ELSE TerrainAdded(k - 1)
         + (IF events[k].e = "terrain" THEN events[k].n ELSE 0)

\* The number of add_constraint calls the history of the step records.
ConstraintsAdded == TerrainAdded(Len(events)) + Cardinality(EventsOf("pair"))

\* Every body went through its whole iteration of the loop.
AllProcessed ==
    /\ pending = {}
    /\ \A i \in 0..(Len(bodies) - 1) :
          /\ \E k \in EventsOf("integrate") : events[k].i = i
          /\ \E k \in EventsOf("terrain") : events[k].i = i

\* The step of the model being taken is the call of solve.
SolveCalled == solver.solved = 0 /\ solver'.solved = 1

\* C14: the solver of a step starts empty, every add_constraint of the step
\* comes before solve, and solve is called exactly once, with 20 iterations,
\* after every body has been processed (also without bodies or contacts); no
\* constraint is added after solve.
C14_SolverLifecycle ==
    /\ [](/\ Cardinality(EventsOf("solve")) <= 1
          /\ solver.solved <= 1
          /\ Len(solver.constraints) = ConstraintsAdded)
    /\ [](pc # "idle" => solver.solved = 0 /\ EventsOf("solve") = {})
    /\ []((pc = "idle" /\ steps > 0)
             => /\ solver.solved = 1
                /\ solver.iterations = SolveIterations
                /\ EventsOf("solve") = {Len(events)})
    /\ [][(pc = "idle" /\ pc' # "idle") => solver' = SolverNew]_vars
    /\ [][SolveCalled
             => /\ AllProcessed
                /\ solver'.constraints = solver.constraints
                /\ solver'.iterations = SolveIterations]_vars
    /\ [][solver.solved = 1
             => \/ solver'.constraints = solver.constraints
                \/ solver' = SolverNew]_vars

\* A finished step of three bodies that added terrain and pair constraints
\* and then solved.
C14_Witness ==
    /\ pc = "idle"
    /\ solver.solved = 1
    /\ Len(bodies) = 3
    /\ TerrainAdded(Len(events)) > 0
    /\ EventsOf("pair") # {}

\* The bodies whose integration produced a non-finite position.
NonFinite == {i \in 0..(Len(bodies) - 1) : bodies[i + 1].body.x = NaN}

\* C15: a body whose integration produced non-finite state is surfaced as
\* an error of the step, its bounds are not put into the spatial index and
\* no constraint that refers to it is registered with the solver.
C15_NonFiniteSurfaced ==
    \A i \in NonFinite :
        /\ \E k \in EventsOf("error") : events[k].i = i
        /\ bvh[bodies[i + 1].bvh_id].bounds.lo # NaN
        /\ bvh[bodies[i + 1].bvh_id].bounds.hi # NaN
        /\ \A k \in 1..Len(solver.constraints) :
              /\ solver.constraints[k].a # i
              /\ solver.constraints[k].kind = "dynamic"
                    => solver.constraints[k].b # i

\* The slots met by following the free list from slot h, for at most fuel
\* links; the walk stops at the end of the list, and also at a slot that is
\* occupied or outside the storage (which it records).
RECURSIVE FreeWalkFrom(_, _, _)
FreeWalkFrom(p, h, fuel) ==
    LET e == EntryGet(p, h) IN
    IF fuel = 0
    THEN <<>>
    ELSE IF e # None /\ e[1].tag = "FreeListPtr"
    THEN <<h>> \o FreeWalkFrom(p, e[1].next_free, fuel - 1)
    ELSE <<h>>

\* The walk from the head of the free list.
FreeWalk(p) ==
    IF p.free_list = None
    THEN <<>>
    ELSE FreeWalkFrom(p, p.free_list[1], Len(p.entries) + 1)

\* The slots of the storage that hold no value, and those holding the
\* end-of-list sentinel.
FreeSlots(p) ==
    {i \in 0..(Len(p.entries) - 1) : p.entries[i + 1].tag # "Occupied"}

EndSlots(p) ==
    {i \in 0..(Len(p.entries) - 1) : p.entries[i + 1].tag = "FreeListEnd"}

\* C17: as long as no call has failed, following the links from the head of
\* the free list visits every free slot exactly once and no occupied slot,
\* without a cycle, and ends at the only end-of-list sentinel; the head is
\* absent exactly when no slot is free; storage size = len + length of the
\* free list.
C17_FreeListInvariant ==
    Running =>
        LET w == FreeWalk(pool) IN
        /\ Range(w) = FreeSlots(pool)
        /\ Cardinality(Range(w)) = Len(w)
        /\ EndSlots(pool) = (IF w = <<>> THEN {} ELSE {w[Len(w)]})
        /\ (pool.free_list = None) <=> (FreeSlots(pool) = {})
        /\ Len(pool.entries) = pool.len + Len(w)

\* A pool with a value and a free list of two slots.
C17_Witness ==
    /\ Running
    /\ Len(FreeWalk(pool)) = 2
    /\ pool.len = 1

\* C18: a remove that fails because its handle is not occupied (free, or
\* outside the storage) leaves the pool as it was before the call: the same
\* len, the same head of the free list and the same entries.
C18_FailedRemoveChangesNothing ==
    (last.op = "remove" /\ last.panic) => pool = last.pre

\* The index handles the bodies store.
BodyHandles == {bodies[k].bvh_id : k \in 1..Len(bodies)}

\* C19: insert_body has returned the ids 0, 1, 2, ... in insertion order,
\* the id of an existing body never changes, and the spatial index holds
\* exactly one entry per body, found through the handle the body stores and
\* carrying the body's id as payload, also after a remove-and-reinsert.
C19_BodyIndexCorrespondence ==
    /\ [](/\ returned = [k \in 1..Len(bodies) |-> k - 1]
          /\ DOMAIN bvh = BodyHandles
          /\ Cardinality(BodyHandles) = Len(bodies)
          /\ \A k \in 1..Len(bodies) : bvh[bodies[k].bvh_id].value = k - 1)
    /\ [][/\ Len(bodies') >= Len(bodies)
          /\ SubSeq(returned', 1, Len(returned)) = returned
          /\ \A k \in 1..Len(bodies) :
                bodies'[k].body.r = bodies[k].body.r]_vars

\* A finished step of three bodies in which a body's index entry was moved
\* to another handle.
C19_Witness ==
    /\ pc = "idle"
    /\ steps > 0
    /\ Len(bodies) = 3
    /\ \E k \in 1..Len(bodies) : bodies[k].bvh_id # k - 1

\* The index entries the query on body i's tight bounds reports that carry
\* a smaller id than i.
Candidates(i) ==
    {h \in BvhQuery(bvh, Bounds(bodies[i + 1].body)) : bvh[h].value < i}

\* The number of constraints registered for driver i against candidate j.
Registered(i, j) ==
    Cardinality({k \in DynamicAt : /\ solver.constraints[k].a = i
                                   /\ solver.constraints[k].b = j})

\* The candidates of driver i the query callback has been called for.
Visited(i) ==
    IF i < body_i THEN Candidates(i)
    ELSE IF i = body_i /\ pc = "query" THEN Candidates(i) \ pending
    ELSE {}

\* C20: within a step, exactly one constraint is registered for every
\* candidate j < i the query on driver i's tight bounds has reported, empty
\* manifolds included, and none for any other pair; the number of dynamic
\* constraints equals the number of reported candidates with j < i.
C20_OneConstraintPerCandidate ==
    pc # "idle" =>
        /\ \A i \in 0..(Len(bodies) - 1) : \A j \in 0..(Len(bodies) - 1) :
              Registered(i, j) =
                  Cardinality({h \in Visited(i) : bvh[h].value = j})
        /\ \A i \in 0..(Len(bodies) - 1) : \A j \in 0..(Len(bodies) - 1) :
              Registered(i, j) <= 1
        /\ \A k \in DynamicAt :
              /\ solver.constraints[k].a \in 1..(Len(bodies) - 1)
              /\ solver.constraints[k].b \in 0..(solver.constraints[k].a - 1)

\* The loop of a step has ended and the solver holds the constraint of a
\* reported candidate whose manifold is empty.
C20_Witness ==
    /\ pc = "solve"
    /\ \E k \in DynamicAt :
          /\ solver.constraints[k].manifold.contacts = <<>>
          /\ \E h \in Candidates(solver.constraints[k].a) :
                bvh[h].value = solver.constraints[k].b

\* The positions of the history at which contact generation ran for the
\* pair (driver i, candidate j).
PairEvents(i, j) ==
    {k \in EventsOf("pair") : events[k].i = i /\ events[k].j = j}

\* Whether the tight bounds of bodies i and j intersect.
TightIntersect(i, j) ==
    Intersects(Bounds(bodies[i + 1].body), Bounds(bodies[j + 1].body))

\* C21: for every pair of bodies i > j whose tight bounds after integration
\* intersect, contact generation runs exactly once in the step, driven by i
\* against j; stale stored bounds make the step miss no overlapping pair.
C21_BroadPhaseComplete ==
    pc # "idle" =>
        \A i \in 0..(body_i - 1) : \A j \in 0..(i - 1) :
            TightIntersect(i, j) => Cardinality(PairEvents(i, j)) = 1

\* The loop has ended, and contact generation ran for an overlapping pair
\* whose lower body had left its stored bounds and was reinserted.
C21_Witness ==
    /\ pc = "solve"
    /\ \E i \in 0..(Len(bodies) - 1) : \E j \in 0..(i - 1) :
          /\ TightIntersect(i, j)
          /\ PairEvents(i, j) # {}
          /\ \E k \in EventsOf("integrate") :
                events[k].i = j /\ events[k].moved

\* The positions of the terrain constraints of body i in the solver, and the
\* manifolds of those constraints in the order of their registration.
TerrainAt(i) ==
    {k \in 1..Len(solver.constraints) :
        /\ solver.constraints[k].kind = "terrain"
        /\ solver.constraints[k].a = i}

TerrainManifolds(i) ==
    LET cs == SelectSeq(solver.constraints,
                        LAMBDA c : c.kind = "terrain" /\ c.a = i)
    IN  [m \in 1..Len(cs) |-> cs[m].manifold]

\* The positions of the dynamic constraints that refer to body i.
DynamicOf(i) ==
    {k \in DynamicAt :
        solver.constraints[k].a = i \/ solver.constraints[k].b = i}

\* Whether the terrain part of the iteration of body i has run.
TerrainDone(i) == \E k \in EventsOf("terrain") : events[k].i = i

\* C22: terrain contacts are not pruned.  For every body the terrain
\* constraints registered are one single-contact manifold per local contact
\* against the static body, in the order of the contacts (none without a
\* contact), and each comes before the body's dynamic constraints.
C22_TerrainContactsNotPruned ==
    pc # "idle" =>
        \A i \in 0..(Len(bodies) - 1) :
            LET lcs == TerrainContacts(bodies[i + 1].body) IN
            /\ TerrainManifolds(i) =
                  (IF TerrainDone(i)
                   THEN [m \in 1..Len(lcs) |-> [contacts |-> <<lcs[m]>>]]
                   ELSE <<>>)
            /\ \A k \in TerrainAt(i) : \A d \in DynamicOf(i) : k < d

\* The loop has ended; a body with two local contacts against the terrain
\* also drove a dynamic constraint.
C22_Witness ==
    /\ pc = "solve"
    /\ \E i \in 0..(Len(bodies) - 1) :
          /\ Len(TerrainContacts(bodies[i + 1].body)) = 2
          /\ Cardinality(TerrainAt(i)) = 2
          /\ \E d \in DynamicAt : solver.constraints[d].a = i

\* The bodies that touch the terrain.
TouchingTerrain ==
    {i \in 0..(Len(bodies) - 1) : TerrainContacts(bodies[i + 1].body) # <<>>}

\* C23: in one step at most one terrain manifold is registered for a body
\* touching the terrain, and none is registered twice: the terrain manifolds
\* are at most as many as the bodies touching the terrain.
C23_OneTerrainManifoldPerBody ==
    pc # "idle" =>
        /\ \A i \in 0..(Len(bodies) - 1) : Cardinality(TerrainAt(i)) <= 1
        /\ Len(solver.constraints) - Cardinality(DynamicAt)
              <= Cardinality(TouchingTerrain)

\* The ids of the bodies in the body store.
BodyIds == 0..(Len(bodies) - 1)

\* A call of add_constraint has been made and solve has not returned.
Accumulating == solver.constraints # <<>> /\ solver.solved = 0

\* C24: every constraint registered with the solver refers to two distinct
\* bodies, a dynamic body and the static terrain body or two dynamic bodies
\* with different ids; every dynamic body referred to is in the body store;
\* the body store neither grows nor shrinks from the first add_constraint to
\* the end of solve.
C24_ConstraintsReferToStoredBodies ==
    /\ [](\A k \in 1..Len(solver.constraints) :
             LET c == solver.constraints[k] IN
             /\ c.kind \in {"terrain", "dynamic"}
             /\ c.a \in BodyIds
             /\ c.kind = "dynamic" => c.b \in BodyIds /\ c.b # c.a)
    /\ [][(pc # "idle" \/ Accumulating) => Len(bodies') = Len(bodies)]_vars

\* A solved step that held a terrain constraint and a constraint between two
\* touching dynamic bodies.
C24_Witness ==
    /\ solver.solved = 1
    /\ \E k \in 1..Len(solver.constraints) :
          solver.constraints[k].kind = "terrain"
    /\ \E k \in DynamicAt :
          /\ solver.constraints[k].manifold.contacts # <<>>
          /\ solver.constraints[k].a # solver.constraints[k].b

----------------------------------------------------------------------------
(* Properties of two runs of World::step, checked under TwinSpec.           *)

\* C16: two runs of step from the same state with the same dt register the
\* same constraints with the solver in the same order, whatever order the
\* spatial index visits the candidates of a query in, and leave the same
\* body transforms and velocities.
C16_StepDeterministic ==
    twin.done => /\ twin.constraints = solver.constraints
                 /\ twin.bodies = bodies

\* The weaker statement about the result alone: the two runs leave the same
\* bodies.
SameResult == twin.done => twin.bodies = bodies

====
